---- MODULE Spec2Model ----
(***************************************************************************)
(* ChopshopSignin: the sign-in state tracker of signinapp/model.py.        *)
(*                                                                         *)
(* The database tables "active" and "stamps" are sets of rows, the tables  *)
(* "users" and "events" are indexed by their primary key.  A request to    *)
(* SqliteModel.scan runs in two steps, as the code does: the reads (the    *)
(* event check, the canonicalization, the two SELECTs) and then the one    *)
(* commit.  Several requests may be in flight at once.                     *)
(*                                                                         *)
(* Strings are sequences of one-character strings, so that the regular     *)
(* expressions, str.lower and base64 are computed character by character.  *)
(***************************************************************************)
EXTENDS Integers, Sequences, FiniteSets, TLC

(***************************************************************************)
(* Bounds of the model.                                                    *)
(***************************************************************************)
\* The wall clock runs over 0..MaxTime.
MaxTime == 3
\* Rows ever inserted into "active" and "stamps" in one behaviour.
MaxRows == 3

\* Request slots (worker threads of the web server).
Procs == {1, 2}

(***************************************************************************)
(* Characters and strings.                                                 *)
(***************************************************************************)
Lower == <<"a","b","c","d","e","f","g","h","i","j","k","l","m",
           "n","o","p","q","r","s","t","u","v","w","x","y","z">>
Upper == <<"A","B","C","D","E","F","G","H","I","J","K","L","M",
           "N","O","P","Q","R","S","T","U","V","W","X","Y","Z">>
Digits == <<"0","1","2","3","4","5","6","7","8","9">>

InSeq(s, c) == \E i \in DOMAIN s : s[i] = c
IndexOf(s, c) == CHOOSE i \in DOMAIN s : s[i] = c

\* str.lower on one character and on a string
LowerChar(c) == IF InSeq(Upper, c) THEN Lower[IndexOf(Upper, c)] ELSE c
LowerStr(s) == [i \in DOMAIN s |-> LowerChar(s[i])]

\* str.encode("utf-8") of the ASCII characters the model uses
Ord(c) ==
  IF InSeq(Lower, c) THEN 96 + IndexOf(Lower, c)
  ELSE IF InSeq(Upper, c) THEN 64 + IndexOf(Upper, c)
  ELSE IF InSeq(Digits, c) THEN 47 + IndexOf(Digits, c)
  ELSE CASE c = " " -> 32
         [] c = "!" -> 33
         [] c = "'" -> 39
         [] c = "+" -> 43
         [] c = "," -> 44
         [] c = "-" -> 45
         [] c = "/" -> 47
         [] c = "=" -> 61
         [] c = "?" -> 63
Utf8(s) == [i \in DOMAIN s |-> Ord(s[i])]

\* The base64 alphabet, value 0 first.
B64Alphabet == Upper \o Lower \o Digits \o <<"+", "/">>
B64Char(n) == B64Alphabet[n + 1]

\* base64.b64encode: three bytes give four characters, the tail is padded
RECURSIVE b64encode(_)
b64encode(b) ==
  IF Len(b) = 0 THEN <<>>
  ELSE IF Len(b) = 1 THEN
    <<B64Char(b[1] \div 4), B64Char((b[1] % 4) * 16), "=", "=">>
  ELSE IF Len(b) = 2 THEN
    <<B64Char(b[1] \div 4), B64Char((b[1] % 4) * 16 + b[2] \div 16),
      B64Char((b[2] % 16) * 4), "=">>
  ELSE
    <<B64Char(b[1] \div 4), B64Char((b[1] % 4) * 16 + b[2] \div 16),
      B64Char((b[2] % 16) * 4 + b[3] \div 64), B64Char(b[3] % 64)>>
    \o b64encode(SubSeq(b, 4, Len(b)))

\* Faulty variant: the name is not lower-cased.
mk_hash_cased(name) == b64encode(Utf8(name))

\* mk_hash(name): base64 of the lower-cased name
mk_hash(name) == b64encode(Utf8(LowerStr(name)))

(***************************************************************************)
(* NAME_RE and HASH_RE.                                                    *)
(***************************************************************************)
\* canonical_name's result when neither pattern matches (Python's None)
None == <<"None">>

\* [a-zA-Z ']
IsNameChar(c) == InSeq(Lower, c) \/ InSeq(Upper, c) \/ c = " " \/ c = "'"
\* [a-zA-Z ']+
IsNamePart(s) == Len(s) > 0 /\ \A i \in DOMAIN s : IsNameChar(s[i])
\* [A-Za-z\d+/]
IsB64Char(c) == InSeq(B64Alphabet, c)

Drop(s, k) == SubSeq(s, k + 1, Len(s))

\* (?i)mentor at the head of s: the inline flag makes the word match in
\* any letter case
HasMentor(s) ==
  Len(s) >= 6 /\ LowerStr(SubSeq(s, 1, 6)) = <<"m","e","n","t","o","r">>

\* The group "last" of NAME_RE on the text before the comma: the optional
\* group mentor[ -]* is greedy and gives characters back, longest first,
\* until [a-zA-Z ']+ matches the rest; None when nothing matches.
LastGroup(pre) ==
  LET cuts == IF HasMentor(pre)
              THEN {k \in 6..Len(pre) :
                      /\ \A i \in 7..k : pre[i] \in {" ", "-"}
                      /\ IsNamePart(Drop(pre, k))}
              ELSE {}
  IN IF cuts # {}
     THEN Drop(pre, CHOOSE k \in cuts : \A j \in cuts : j <= k)
     ELSE IF IsNamePart(pre) THEN pre ELSE None

\* The group "first" of NAME_RE on the text after the comma: \s* is greedy
\* and gives characters back until [a-zA-Z ']+ matches the rest.
FirstGroup(post) ==
  LET cuts == {k \in 0..Len(post) :
                 /\ \A i \in 1..k : post[i] = " "
                 /\ IsNamePart(Drop(post, k))}
  IN IF cuts # {}
     THEN Drop(post, CHOOSE k \in cuts : \A j \in cuts : j <= k)
     ELSE None

\* NAME_RE.match(name): <<first, last>>, or None.  Neither group can hold
\* a comma, so a matching string has exactly one.
NAME_RE(name) ==
  LET commas == {i \in DOMAIN name : name[i] = ","}
  IN IF Cardinality(commas) # 1 THEN None
     ELSE LET k == CHOOSE i \in commas : TRUE
              last == LastGroup(SubSeq(name, 1, k - 1))
              first == FirstGroup(Drop(name, k))
          IN IF last = None \/ first = None THEN None ELSE <<first, last>>

\* HASH_RE.match(name): groups of four base64 characters, the last one
\* possibly padded with one or two "="
HASH_RE(name) ==
  LET n == Len(name)
      pad == IF n >= 2 /\ name[n] = "=" /\ name[n - 1] = "=" THEN 2
             ELSE IF n >= 1 /\ name[n] = "=" THEN 1 ELSE 0
  IN /\ n % 4 = 0
     /\ \A i \in 1..(n - pad) : IsB64Char(name[i])

\* canonical_name(name)
canonical_name(name) ==
  LET m == NAME_RE(name)
  IN IF m # None THEN mk_hash(m[1] \o <<" ">> \o m[2])
     ELSE IF HASH_RE(name) THEN name
     ELSE None

(***************************************************************************)
(* The tables.                                                             *)
(***************************************************************************)
\* User.make(name, ..., approved): the code is mk_hash of the name
make(name, approved) ==
  [name |-> name, code |-> mk_hash(name), approved |-> approved]

\* The rows of the table "users", by primary key: two approved users and
\* one awaiting approval.
users ==
  << make(<<"J","a","n","e"," ","D","o","e">>, TRUE),
     make(<<"A","m","y"," ","L","e","e">>, TRUE),
     make(<<"R","i","c","k"," ","R","o","e">>, FALSE) >>
UserIds == DOMAIN users
NoUser == 0

\* The rows of the table "events" are [start, end, enabled], by primary
\* key; scan is handed an event or nothing.
EventIds == {1, 2}
NoEvent == 0

\* What a scanner may send as the identity
RawNames ==
  { <<"D","o","e",","," ","J","a","n","e">>,
    <<"a","m","F","u","Z","S","B","k","b","2","U","=">>,
    <<"L","e","e",","," ","A","m","y">>,
    <<"R","o","e",","," ","R","i","c","k">>,
    <<"P","o","e",","," ","P","a","t">>,
    <<"?","!">>,
    <<>> }

\* canonical_name of each of them, computed once
KeyOf == [name \in RawNames |-> canonical_name(name)]

\* one_or_none() finding nothing
NoRow == [id |-> 0, user |-> NoUser, event |-> NoEvent, start |-> 0]

VARIABLES
  now,         \* the clock read by datetime.now() and func.now()
  events,      \* table "events"
  active,      \* table "active": rows [id, user, event, start]
  stamps,      \* table "stamps": rows [id, user, event, start, end]
  nextActive,  \* next primary key of "active"
  nextStamp,   \* next primary key of "stamps"
  req,         \* the scan requests in flight, one per slot
  closes,      \* history: which session each stamp closed
  log,         \* history: the outcomes "in" and "out" of each user's scans
  awards,      \* table "badge_awards": rows [id, user, badge]
  nextAward,   \* next primary key of "badge_awards"
  calls,       \* history: the last two badge calls, the latest last
  reply,       \* what the last query or view answered, until delivered
  canon        \* an identity string and what canonical_name made of it

vars == <<now, events, active, stamps, nextActive, nextStamp, req, closes, log,
          awards, nextAward, calls, reply, canon>>

\* What the sign-in tracker leaves alone
side == <<awards, nextAward, calls, reply, canon>>

\* No answer is waiting to be delivered
NoReply == [op |-> "none"]

\* No identity string is being canonicalized
NoInput == [name |-> <<>>, key |-> <<>>, done |-> FALSE]

\* A slot with no request
Idle ==
  [pc |-> "idle", ev |-> NoEvent, name |-> <<>>, user |-> NoUser,
   act |-> NoRow, result |-> "", elapsed |-> 0, t0 |-> 0,
   preActive |-> {}, preStamps |-> {}, sameOv |-> FALSE, anyOv |-> FALSE]

(***************************************************************************)
(* The pieces of SqliteModel.scan.                                         *)
(***************************************************************************)
\* Faulty variants of Event.is_active: the window closed at its start, and
\* the window never ending.
is_active_from_start(e, t) == e.enabled = TRUE /\ e.start <= t /\ t < e.end
is_active_no_end(e, t) == e.enabled = TRUE /\ e.start < t

\* Event.is_active
is_active(e, t) == e.enabled = TRUE /\ e.start < t /\ t < e.end

\* "ev and ev.is_active"
EventOk(ev, t) == ev # NoEvent /\ is_active(events[ev], t)

\* "if not code": None and the empty string are both false
CodeOk(code) == code # None /\ code # <<>>

\* User.query.filter_by(code=code).one_or_none(); code is unique
FindUser(code) ==
  IF \E u \in UserIds : users[u].code = code
  THEN CHOOSE u \in UserIds : users[u].code = code
  ELSE NoUser

\* Faulty variant: approval is not looked at.
UserOkUnapproved(u) == u # NoUser

\* "user and user.approved"
UserOk(u) == u # NoUser /\ users[u].approved

\* Faulty variant: the query loses its filter on the user.
ActiveOfAnyone(code, rows) == rows

\* Active.query.join(User).filter_by(code=code): the rows it selects
ActiveOf(code, rows) == {a \in rows : users[a.user].code = code}

\* Faulty variant: the session starts when the event does.
SignInAtEventStart(rows, id, u, ev, t) ==
  rows \cup {[id |-> id, user |-> u, event |-> ev, start |-> events[ev].start]}

\* Active(user=user, event=ev), start filled in by the server default
SignIn(rows, id, u, ev, t) ==
  rows \cup {[id |-> id, user |-> u, event |-> ev, start |-> t]}

\* Faulty variant: the delete is forgotten.
DeleteNothing(rows, a) == rows

\* db.session.delete(active)
DeleteActive(rows, a) == rows \ {a}

\* Faulty variants: the stamp starts at the sign-out, and the stamp
\* replaces the user's earlier stamps.
AddStampFromNow(rows, id, u, ev, a, t) ==
  rows \cup {[id |-> id, user |-> u, event |-> ev, start |-> t, end |-> t]}
AddStampReplacing(rows, id, u, ev, a, t) ==
  {s \in rows : s.user # u}
    \cup {[id |-> id, user |-> u, event |-> ev, start |-> a.start, end |-> t]}

\* Stamps(user=user, event=ev, start=active.start), end filled in by the
\* server default
AddStamp(rows, id, u, ev, a, t) ==
  rows \cup {[id |-> id, user |-> u, event |-> ev, start |-> a.start, end |-> t]}

\* Stamps.elapsed
elapsed(s) == s.end - s.start

(***************************************************************************)
(* The state machine.                                                      *)
(***************************************************************************)
Init ==
  /\ now = 0
  /\ \E en \in {[e \in EventIds |-> TRUE], [e \in EventIds |-> e # 1]} :
       events = [e \in EventIds |->
                   IF e = 1 THEN [start |-> 1, end |-> 3, enabled |-> en[e]]
                            ELSE [start |-> 0, end |-> 4, enabled |-> en[e]]]
  /\ active = {}
  /\ stamps = {}
  /\ nextActive = 1
  /\ nextStamp = 1
  /\ req = [p \in Procs |-> Idle]
  /\ closes = {}
  /\ log = [u \in UserIds |-> <<>>]
  /\ awards = {}
  /\ nextAward = 1
  /\ calls = <<>>
  /\ reply = NoReply
  /\ canon = NoInput

\* Rows inserted so far
Inserted == (nextActive - 1) + (nextStamp - 1)

\* A finished request answers before anything else happens: its slot
\* holds the outcome for exactly one state, and so does the answer of a
\* query or a view.
Settled == (\A p \in Procs : req[p].pc # "done") /\ reply = NoReply

\* Time passes.
Tick ==
  /\ Settled
  /\ now < MaxTime
  /\ now' = now + 1
  /\ UNCHANGED <<events, active, stamps, nextActive, nextStamp, req, closes, log>>
  /\ UNCHANGED side

\* scan, lines 333-345: the checks and the two SELECTs.  The request ends
\* here when a check fails, and when one_or_none() finds two sessions.
ScanLookup(p, ev, name) ==
  /\ Settled
  /\ req[p].pc = "idle"
  /\ Inserted + Cardinality({q \in Procs : req[q].pc = "found"}) < MaxRows
  /\ LET code == KeyOf[name]  \* canonical_name(name)
         u == IF CodeOk(code) THEN FindUser(code) ELSE NoUser
         found == IF u = NoUser THEN {} ELSE ActiveOf(code, active)
         base == [Idle EXCEPT !.ev = ev, !.name = name, !.t0 = now,
                              !.preActive = active, !.preStamps = stamps]
         \* the other requests between their SELECT and their commit
         open == {q \in Procs \ {p} : req[q].pc = "found"}
     IN IF ~EventOk(ev, now) \/ ~CodeOk(code) \/ ~UserOk(u)
        THEN req' = [req EXCEPT ![p] = [base EXCEPT !.pc = "done", !.result = "none"]]
        ELSE IF Cardinality(found) > 1
        THEN req' = [req EXCEPT ![p] =
                       [base EXCEPT !.pc = "done", !.user = u, !.result = "error"]]
        ELSE req' = [q \in Procs |->
                IF q = p
                THEN [base EXCEPT
                        !.pc = "found", !.user = u,
                        !.act = IF found = {} THEN NoRow ELSE CHOOSE a \in found : TRUE,
                        !.anyOv = open # {},
                        !.sameOv = \E o \in open : req[o].user = u]
                ELSE IF q \in open
                THEN [req[q] EXCEPT !.anyOv = TRUE,
                                    !.sameOv = @ \/ req[q].user = u]
                ELSE req[q]]
  /\ UNCHANGED <<now, events, active, stamps, nextActive, nextStamp, closes, log>>
  /\ UNCHANGED side

\* scan, lines 345-358: the one commit, signing the user in or out
ScanCommit(p) ==
  /\ Settled
  /\ req[p].pc = "found"
  /\ LET r == req[p]
     IN IF r.act = NoRow
        THEN /\ active' = SignIn(active, nextActive, r.user, r.ev, now)
             /\ nextActive' = nextActive + 1
             /\ req' = [req EXCEPT ![p] = [r EXCEPT !.pc = "done", !.result = "in"]]
             /\ log' = [log EXCEPT ![r.user] = Append(@, "in")]
             /\ UNCHANGED <<stamps, nextStamp, closes>>
        ELSE /\ active' = DeleteActive(active, r.act)
             /\ stamps' = AddStamp(stamps, nextStamp, r.user, r.ev, r.act, now)
             /\ nextStamp' = nextStamp + 1
             /\ closes' = closes \cup {[stamp |-> nextStamp, session |-> r.act]}
             /\ LET s == CHOOSE s \in stamps' : s.id = nextStamp
                IN req' = [req EXCEPT ![p] =
                             [r EXCEPT !.pc = "done", !.result = "out",
                                       !.elapsed = elapsed(s)]]
             /\ log' = [log EXCEPT ![r.user] = Append(@, "out")]
             /\ UNCHANGED nextActive
  /\ UNCHANGED <<now, events>>
  /\ UNCHANGED side

\* The response is sent and the slot is free again.
Return(p) ==
  /\ req[p].pc = "done"
  /\ req' = [req EXCEPT ![p] = Idle]
  /\ UNCHANGED <<now, events, active, stamps, nextActive, nextStamp, closes, log>>
  /\ UNCHANGED side

Lookup == \E p \in Procs, ev \in EventIds \cup {NoEvent}, name \in RawNames :
            ScanLookup(p, ev, name)
Commit == \E p \in Procs : ScanCommit(p)
Respond == \E p \in Procs : Return(p)

Next == Tick \/ Lookup \/ Commit \/ Respond

Spec == Init /\ [][Next]_vars

(***************************************************************************)
(* canonical_name on its own: an identity string is drawn, and             *)
(* canonical_name is applied to it, as the first step of scan and of       *)
(* get_stamps does.  The strings are the spellings "Last, First" of a      *)
(* person's name in every mix of letter case, bare or after the word       *)
(* "mentor".                                                               *)
(***************************************************************************)
\* The people whose names are spelled: <<first, last>>
People == { <<<<"A","l">>, <<"P","o">>>>,
            <<<<"A","l">>, <<"M","e","n","t","o","r","s">>>> }

\* What may stand before the last name
Prefixes == { <<>>, <<"m","e","n","t","o","r"," ">>, <<"M","E","N","T","O","R","-">>, <<"M","e","n","t","o","r"," ","-"," ">> }

\* s with the letters at the positions in mask in upper case and the
\* other letters in lower case
WithCase(s, mask) ==
  [i \in DOMAIN s |->
     IF i \in mask /\ InSeq(Lower, LowerChar(s[i]))
     THEN Upper[IndexOf(Lower, LowerChar(s[i]))]
     ELSE LowerChar(s[i])]

\* The identity strings drawn: the name the account is made from, and
\* one spelling of it
Spellings ==
  UNION { { [person |-> who[1] \o <<" ">> \o who[2],
             name |-> pre \o WithCase(who[2] \o <<",", " ">> \o who[1], mask)] :
            mask \in SUBSET (1..(Len(who[1]) + Len(who[2]) + 2)) } :
          who \in People, pre \in Prefixes }

InitCanon ==
  /\ now = 0
  /\ events = [e \in EventIds |-> [start |-> 1, end |-> 3, enabled |-> TRUE]]
  /\ active = {}
  /\ stamps = {}
  /\ nextActive = 1
  /\ nextStamp = 1
  /\ req = [p \in Procs |-> Idle]
  /\ closes = {}
  /\ log = [u \in UserIds |-> <<>>]
  /\ awards = {}
  /\ nextAward = 1
  /\ calls = <<>>
  /\ reply = NoReply
  /\ \E sp \in Spellings :
       canon = [name |-> sp.name, person |-> sp.person,
                code |-> <<>>, key |-> <<>>, again |-> <<>>, done |-> FALSE]

\* User.make gives the person's account its code; canonical_name is
\* applied to the spelling, and to the code as a scanner would send it.
Canonicalize ==
  /\ ~canon.done
  /\ LET account == make(canon.person, TRUE)
     IN canon' = [canon EXCEPT !.code = account.code,
                               !.key = canonical_name(canon.name),
                               !.again = canonical_name(account.code),
                               !.done = TRUE]
  /\ UNCHANGED <<now, events, active, stamps, nextActive, nextStamp, req,
                 closes, log, awards, nextAward, calls, reply>>

NextCanon == Canonicalize

SpecCanon == InitCanon /\ [][NextCanon]_vars

(***************************************************************************)
(* The query and export layer, and the HTTP view of scan.  A call is one   *)
(* step: it leaves its answer in reply, and the answer is delivered before *)
(* anything else happens.                                                  *)
(***************************************************************************)
\* Event.code and Event.name of the two events
EventCode == [e \in EventIds |-> IF e = 1 THEN "code1" ELSE "code2"]
EventName == [e \in EventIds |-> IF e = 1 THEN "Build" ELSE "Outreach"]

\* No event argument: None and the empty string both fail "if event:"
NoCode == ""

\* The event arguments: none, each event's code, and a code of no event
EventArgs == {NoCode, "code1", "code2", "code9"}

\* No time bound: None fails "if start:" and "if end:"
NoTime == -1

\* The arguments handed to get_stamps: an identity string (<<>> for none)
\* and an event's code
StampArgs ==
  { [name |-> <<>>, event |-> NoCode],
    [name |-> <<"D","o","e",","," ","J","a","n","e">>, event |-> NoCode],
    [name |-> <<>>, event |-> "code1"] }

\* The arguments handed to export: a person's name (<<>> for none), the
\* two time bounds, and whether a header row is asked for
ExportArgs ==
  { [name |-> <<>>, start |-> NoTime, end |-> NoTime, headers |-> TRUE],
    [name |-> <<>>, start |-> NoTime, end |-> NoTime, headers |-> FALSE],
    [name |-> <<>>, start |-> 1, end |-> NoTime, headers |-> FALSE],
    [name |-> <<>>, start |-> NoTime, end |-> 2, headers |-> FALSE],
    [name |-> <<"J","a","n","e"," ","D","o","e">>, start |-> 1, end |-> 2,
     headers |-> TRUE] }

\* User.human_readable; no user of the tables has a mentor's role
human_readable(u) == u.name

\* query.all(): the rows, in the order of their primary keys
RECURSIVE InOrder(_)
InOrder(rows) ==
  IF rows = {} THEN <<>>
  ELSE LET r == CHOOSE r \in rows : \A o \in rows : r.id <= o.id
       IN <<r>> \o InOrder(rows \ {r})

\* Active.as_dict
Active_as_dict(a) ==
  [user |-> human_readable(users[a.user]), start |-> a.start,
   event |-> EventName[a.event]]

\* Stamps.as_dict
Stamps_as_dict(s) ==
  [user |-> human_readable(users[s.user]), elapsed |-> ToString(elapsed(s)),
   start |-> s.start, end |-> s.end, event |-> EventName[s.event]]

\* Stamps.as_list
as_list(s) ==
  <<human_readable(users[s.user]), s.start, s.end, elapsed(s),
    EventName[s.event]>>

\* The first row of an export with headers
Header == <<"Name", "Start", "End", "Elapsed", "Event">>

\* Faulty variant of a SELECT: the rows read are taken out of the table.
SelectConsumes(rows, read) == rows \ read

\* The table after query.all() has read some of its rows
AfterSelect(rows, read) == rows

\* get_active, lines 303-305: the rows the query selects
ActiveQuery(event) ==
  IF event # NoCode
  THEN {a \in active : EventCode[a.event] = event}
  ELSE active

\* get_active
get_active(event) ==
  LET all == InOrder(ActiveQuery(event))
  IN [error |-> "", rows |-> [i \in DOMAIN all |-> Active_as_dict(all[i])]]

\* Stamps.query.filter(Stamps.event.enabled == True), lines 294 and 315.
\* Stamps.event, read on the class, is the relationship attribute, and it
\* has no attribute "enabled": the expression raises AttributeError while
\* the filter is being built, before any row is read.
EnabledFilter(rows) == [error |-> "AttributeError", rows |-> {}]

\* get_stamps
get_stamps(name, event) ==
  LET q0 == EnabledFilter(stamps)
      q1 == IF name # <<>>
            THEN {s \in q0.rows : users[s.user].code = canonical_name(name)}
            ELSE q0.rows
      q2 == IF event # NoCode
            THEN {s \in q1 : EventCode[s.event] = event}
            ELSE q1
      all == InOrder(q2)
  IN IF q0.error # ""
     THEN [error |-> q0.error, rows |-> <<>>]
     ELSE [error |-> "", rows |-> [i \in DOMAIN all |-> Stamps_as_dict(all[i])]]

\* export; type_ and subteam are left at None
export(name, start, end, headers) ==
  LET q0 == EnabledFilter(stamps)
      q1 == IF name # <<>>
            THEN {s \in q0.rows : users[s.user].code = mk_hash(name)}
            ELSE q0.rows
      q2 == IF start # NoTime THEN {s \in q1 : s.start < start} ELSE q1
      q3 == IF end # NoTime THEN {s \in q2 : s.end > end} ELSE q2
      all == InOrder(q3)
      result == [i \in DOMAIN all |-> as_list(all[i])]
  IN IF q0.error # ""
     THEN [error |-> q0.error, rows |-> <<>>]
     ELSE [error |-> "",
           rows |-> IF headers THEN <<Header>> \o result ELSE result]

\* model.scan as views.scan calls it: ev is the event's code, a string.
\* The empty string fails "ev and ev.is_active" and scan returns None; any
\* other string has no attribute is_active and the read raises
\* AttributeError.  No path reaches the rest of scan.
scan_of_code(ev, name) == IF ev = NoCode THEN "none" ELSE "AttributeError"

\* views.scan: an exception leaves the view as a response 500
view_scan(event, name) ==
  LET stamp == scan_of_code(event, name)
  IN IF stamp = "AttributeError"
     THEN [status |-> 500, body |-> "error", stamp |-> "", users |-> <<>>]
     ELSE IF stamp # "none"
     THEN [status |-> 200, body |-> "json", stamp |-> stamp,
           users |-> get_active(event).rows]
     ELSE [status |-> 400, body |-> "text", stamp |-> "", users |-> <<>>]

GetActive ==
  /\ Settled
  /\ \E event \in EventArgs :
       LET out == get_active(event)
       IN /\ reply' = [op |-> "get_active", event |-> event,
                       error |-> out.error, rows |-> out.rows]
          /\ active' = AfterSelect(active, ActiveQuery(event))
  /\ UNCHANGED <<now, events, stamps, nextActive, nextStamp, req, closes, log,
                 awards, nextAward, calls, canon>>

GetStamps ==
  /\ Settled
  /\ \E a \in StampArgs :
       LET out == get_stamps(a.name, a.event)
       IN reply' = [op |-> "get_stamps", name |-> a.name, event |-> a.event,
                    error |-> out.error, rows |-> out.rows]
  /\ UNCHANGED <<now, events, active, stamps, nextActive, nextStamp, req,
                 closes, log, awards, nextAward, calls, canon>>

Export ==
  /\ Settled
  /\ \E a \in ExportArgs :
       LET out == export(a.name, a.start, a.end, a.headers)
       IN reply' = [op |-> "export", name |-> a.name, start |-> a.start,
                    end |-> a.end, headers |-> a.headers,
                    error |-> out.error, rows |-> out.rows]
  /\ UNCHANGED <<now, events, active, stamps, nextActive, nextStamp, req,
                 closes, log, awards, nextAward, calls, canon>>

\* POST /scan; the answer does not depend on the name, which is never read
PostScan ==
  /\ Settled
  /\ \E event \in EventArgs, name \in RawNames :
       LET out == view_scan(event, name)
       IN reply' = [op |-> "POST /scan", event |-> event,
                    status |-> out.status, body |-> out.body,
                    stamp |-> out.stamp, users |-> out.users]
  /\ UNCHANGED <<now, events, active, stamps, nextActive, nextStamp, req,
                 closes, log, awards, nextAward, calls, canon>>

\* The answer reaches the caller.
Deliver ==
  /\ reply # NoReply
  /\ reply' = NoReply
  /\ UNCHANGED <<now, events, active, stamps, nextActive, nextStamp, req,
                 closes, log, awards, nextAward, calls, canon>>

NextApp ==
  \/ Tick \/ Lookup \/ Commit \/ Respond
  \/ GetActive \/ GetStamps \/ Export \/ PostScan \/ Deliver

SpecApp == Init /\ [][NextApp]_vars

(***************************************************************************)
(* Badges.  award_badge and remove_badge are called one after the other;   *)
(* calls keeps the last two calls and the table each of them found.        *)
(***************************************************************************)
\* The rows of the table "badges", by primary key
BadgeIds == {1, 2}

\* BadgeAward rows inserted at most
MaxAwards == 3

\* User.badges: the awards of user u among rows
badges(rows, u) == {a \in rows : a.user = u}

\* User.has_badge
has_badge(rows, u, b) == b \in {a.badge : a \in badges(rows, u)}

\* Faulty variant: the award is added without looking at has_badge.
AwardAlways(rows, id, u, b) ==
  rows \cup {[id |-> id, user |-> u, badge |-> b]}

\* User.award_badge: the table after the call
Awarded(rows, id, u, b) ==
  IF ~has_badge(rows, u, b)
  THEN rows \cup {[id |-> id, user |-> u, badge |-> b]}
  ELSE rows

\* User.remove_badge: the table after the call.  one_or_none() raises when
\* the user has two awards of the badge, and nothing is deleted then.
Removed(rows, u, b) ==
  IF has_badge(rows, u, b)
  THEN LET award == {a \in badges(rows, u) : a.badge = b}
       IN IF Cardinality(award) > 1 THEN rows ELSE rows \ award
  ELSE rows

\* The last two calls, after one more
Called(op, u, b) ==
  LET call == [op |-> op, user |-> u, badge |-> b, before |-> awards]
  IN IF Len(calls) = 2 THEN <<calls[2], call>> ELSE Append(calls, call)

award_badge(u, b) ==
  /\ has_badge(awards, u, b) \/ nextAward <= MaxAwards
  /\ awards' = Awarded(awards, nextAward, u, b)
  /\ nextAward' = IF awards' = awards THEN nextAward ELSE nextAward + 1
  /\ calls' = Called("award_badge", u, b)
  /\ UNCHANGED <<now, events, active, stamps, nextActive, nextStamp, req,
                 closes, log, reply, canon>>

remove_badge(u, b) ==
  /\ awards' = Removed(awards, u, b)
  /\ calls' = Called("remove_badge", u, b)
  /\ UNCHANGED <<now, events, active, stamps, nextActive, nextStamp, req,
                 closes, log, nextAward, reply, canon>>

Award == \E u \in UserIds, b \in BadgeIds : award_badge(u, b)
Remove == \E u \in UserIds, b \in BadgeIds : remove_badge(u, b)

NextBadge == Award \/ Remove

SpecBadge == Init /\ [][NextBadge]_vars

(***************************************************************************)
(* Vocabulary of the properties.                                           *)
(***************************************************************************)
\* The rows of a table that belong to user u
UserRows(rows, u) == {a \in rows : a.user = u}

\* The approved user an identity stands for, NoUser when there is none
ApprovedUserOf(name) ==
  LET key == KeyOf[name]
      hit == {u \in UserIds : users[u].code = key /\ users[u].approved}
  IN IF hit = {} THEN NoUser ELSE CHOOSE u \in hit : TRUE

\* Event ev is enabled and t lies strictly between its start and its end
InsideWindow(ev, t) ==
  /\ ev # NoEvent
  /\ events[ev].enabled
  /\ t \in (events[ev].start + 1)..(events[ev].end - 1)

\* Request p takes its last step: from here on its slot holds the outcome
Finishes(p) == req[p].pc # "done" /\ req'[p].pc = "done"

\* Request p has just finished
Finished(p) == req[p].pc = "done"

(***************************************************************************)
(* C1.  Sign-in.  A scan of an approved user who has no open session, at   *)
(* an event that is active, adds exactly one row to "active" (that user,   *)
(* the scanned event, start = the time of the commit), adds no stamp and   *)
(* answers "in".  Checked on the step that ends the request, for every     *)
(* interleaving with other requests.                                       *)
(***************************************************************************)
C1_SignIn ==
  [][\A p \in Procs :
       LET r == req'[p]
           u == ApprovedUserOf(r.name)
       IN (/\ Finishes(p)
           /\ u # NoUser
           /\ InsideWindow(r.ev, r.t0)
           /\ UserRows(r.preActive, u) = {})
          => /\ r.result = "in"
             /\ stamps' = stamps
             /\ \E a \in active' :
                  /\ a \notin active
                  /\ active' = active \cup {a}
                  /\ a.user = u /\ a.event = r.ev /\ a.start = now
                  /\ \A b \in active : b.id # a.id]_vars

\* A request has just signed its user in, and no stamp exists.
C1_Witness ==
  \E p \in Procs :
    /\ Finished(p)
    /\ req[p].result = "in"
    /\ UserRows(req[p].preActive, req[p].user) = {}
    /\ stamps = {}
    /\ \E a \in active :
         a.user = req[p].user /\ a.event = req[p].ev /\ a.start = now /\ now > req[p].t0

(***************************************************************************)
(* C2.  Sign-out.  A scan of an approved user whose one open session is at *)
(* the scanned event, the event being active, leaves that session removed  *)
(* and adds exactly one stamp: same user and event, start = the session's  *)
(* start, end = the time of the commit.  It answers "out" with elapsed =   *)
(* end - start, which is not negative.  When no other scan of that user    *)
(* overlapped, the session was there until this very step.                 *)
(***************************************************************************)
C2_SignOut ==
  [][\A p \in Procs :
       LET r == req'[p]
           u == ApprovedUserOf(r.name)
           open == UserRows(r.preActive, u)
       IN (/\ Finishes(p)
           /\ u # NoUser
           /\ InsideWindow(r.ev, r.t0)
           /\ Cardinality(open) = 1
           /\ \A a \in open : a.event = r.ev)
          => \A a \in open :
               /\ r.result = "out"
               /\ active' = active \ {a}
               /\ a \notin active'
               /\ ~r.sameOv => a \in active
               /\ \E s \in stamps' :
                    /\ s \notin stamps
                    /\ stamps' = stamps \cup {s}
                    /\ s.user = u /\ s.event = r.ev
                    /\ s.start = a.start /\ s.end = now
                    /\ \A b \in stamps : b.id # s.id
                    /\ r.elapsed = now - a.start
                    /\ r.elapsed >= 0]_vars

\* A request has just signed its user out after a positive time.
C2_Witness ==
  \E p \in Procs :
    /\ Finished(p)
    /\ req[p].result = "out"
    /\ req[p].elapsed > 0
    /\ req[p].act.event = req[p].ev
    /\ UserRows(active, req[p].user) = {}
    /\ \E s \in stamps :
         /\ s.user = req[p].user /\ s.event = req[p].ev
         /\ s.end = now /\ s.end - s.start = req[p].elapsed

(***************************************************************************)
(* C3.  No double-booking: in every reachable state each user has at most  *)
(* one open session.                                                       *)
(***************************************************************************)
C3_AtMostOneSession ==
  \A u \in UserIds : Cardinality(UserRows(active, u)) <= 1

(***************************************************************************)
(* C4.  The state machine is per user per event: a scan of u at e that no  *)
(* other request overlapped leaves u's open sessions at other events in    *)
(* place, and signs u in at e when u had no open session at e.             *)
(***************************************************************************)
C4_PerUserPerEvent ==
  \A p \in Procs :
    LET r == req[p]
    IN (Finished(p) /\ r.result \in {"in", "out"} /\ ~r.anyOv)
       => /\ \A a \in UserRows(r.preActive, r.user) :
               a.event # r.ev => a \in active
          /\ (\A a \in UserRows(r.preActive, r.user) : a.event # r.ev)
               => r.result = "in"

(***************************************************************************)
(* C5.  A scan against no event, a disabled event, an event that has not   *)
(* started or an event that has ended answers nothing and leaves "active"  *)
(* and "stamps" as they were when the scan began.                          *)
(***************************************************************************)
NotRunning(ev, t) ==
  \/ ev = NoEvent
  \/ ~events[ev].enabled
  \/ t < events[ev].start
  \/ t >= events[ev].end

C5_InactiveEventNoChange ==
  \A p \in Procs :
    (Finished(p) /\ NotRunning(req[p].ev, req[p].t0))
    => /\ req[p].result = "none"
       /\ active = req[p].preActive
       /\ stamps = req[p].preStamps

\* An approved user with an open session is scanned at an event that has
\* ended or is disabled.
C5_Witness ==
  \E p \in Procs :
    /\ Finished(p)
    /\ req[p].ev # NoEvent
    /\ NotRunning(req[p].ev, req[p].t0)
    /\ ApprovedUserOf(req[p].name) # NoUser
    /\ UserRows(active, ApprovedUserOf(req[p].name)) # {}
    /\ req[p].result = "none"

(***************************************************************************)
(* C6.  As claimed: an event is active iff it is enabled and the time lies *)
(* in [start, end), so that a scan of an approved user at an existing      *)
(* event gets past the event check exactly then.                           *)
(***************************************************************************)
HalfOpenWindow(ev, t) ==
  events[ev].enabled /\ events[ev].start <= t /\ t < events[ev].end

C6_HalfOpen ==
  \A p \in Procs :
    (Finished(p) /\ req[p].ev # NoEvent /\ ApprovedUserOf(req[p].name) # NoUser)
    => (req[p].result # "none" <=> HalfOpenWindow(req[p].ev, req[p].t0))

(***************************************************************************)
(* C6, amended.  An event is active iff it is enabled and the time lies    *)
(* strictly between start and end: a scan of an approved user at an        *)
(* existing event gets past the event check exactly then, and a scan at    *)
(* the start time itself is turned away.                                   *)
(***************************************************************************)
C6_OpenWindow ==
  /\ \A e \in EventIds :
       is_active(events[e], now) <=> InsideWindow(e, now)
  /\ \A p \in Procs :
       (Finished(p) /\ req[p].ev # NoEvent /\ ApprovedUserOf(req[p].name) # NoUser)
       => (req[p].result # "none" <=> InsideWindow(req[p].ev, req[p].t0))

\* An approved user was scanned at an enabled event at its start time,
\* and turned away.
C6_Witness ==
  \E p \in Procs :
    /\ Finished(p)
    /\ req[p].ev # NoEvent
    /\ events[req[p].ev].enabled
    /\ req[p].t0 = events[req[p].ev].start
    /\ ApprovedUserOf(req[p].name) # NoUser
    /\ req[p].result = "none"

(***************************************************************************)
(* C7.  A scan whose identity has no canonical key, or whose key matches   *)
(* no user, or matches a user who is not approved, answers nothing and     *)
(* leaves "active" and "stamps" as they were when the scan began.          *)
(***************************************************************************)
C7_BadIdentityNoChange ==
  \A p \in Procs :
    (Finished(p) /\ ApprovedUserOf(req[p].name) = NoUser)
    => /\ req[p].result = "none"
       /\ active = req[p].preActive
       /\ stamps = req[p].preStamps

\* A user awaiting approval is scanned at an active event.
C7_Witness ==
  \E p \in Procs, u \in UserIds :
    /\ Finished(p)
    /\ KeyOf[req[p].name] = users[u].code
    /\ ~users[u].approved
    /\ InsideWindow(req[p].ev, req[p].t0)
    /\ req[p].result = "none"

(***************************************************************************)
(* C8.  Closing a session is atomic.  In every state: a stamp that closed  *)
(* a session is in "stamps" and that session is not in "active"; and a     *)
(* session that was opened and is no longer in "active" has its stamp.     *)
(***************************************************************************)
C8_AtomicClose ==
  /\ \A c \in closes :
       /\ c.session \notin active
       /\ \E s \in stamps :
            s.id = c.stamp /\ s.user = c.session.user /\ s.start = c.session.start
  /\ \A id \in 1..(nextActive - 1) :
       (\A a \in active : a.id # id)
       => \E c \in closes : c.session.id = id /\ \E s \in stamps : s.id = c.stamp

\* A session has been closed while another request sits between its
\* SELECT and its commit.
C8_Witness ==
  /\ closes # {}
  /\ \E p \in Procs : req[p].pc = "found"

(***************************************************************************)
(* C9.  Stamps are immutable: no step removes or changes a row of          *)
(* "stamps".                                                               *)
(***************************************************************************)
C9_StampsOnlyGrow == [][stamps \subseteq stamps']_vars

\* A user with a stamp has signed in again, and a second stamp exists.
C9_Witness ==
  \E s \in stamps, t \in stamps :
    s.id # t.id /\ s.user = t.user

(***************************************************************************)
(* C10.  Scans of different users are independent.  The commit of a scan   *)
(* of user u changes no row of any other user; and when no scan of u       *)
(* itself overlapped, u's rows and the outcome are those of running the    *)
(* scan alone on the tables as they were at its SELECT, whatever scans of  *)
(* other users came in between.                                            *)
(***************************************************************************)
C10_UsersIndependent ==
  [][\A p \in Procs :
       (req[p].pc = "found" /\ Finishes(p))
       => LET r == req'[p]
              u == r.user
              was == UserRows(r.preActive, u)
          IN /\ \A v \in UserIds \ {u} :
                  /\ UserRows(active', v) = UserRows(active, v)
                  /\ UserRows(stamps', v) = UserRows(stamps, v)
             /\ ~r.sameOv =>
                  IF was = {}
                  THEN /\ r.result = "in"
                       /\ UserRows(stamps', u) = UserRows(r.preStamps, u)
                       /\ \E a \in active' :
                            UserRows(active', u) = {a} /\ a.event = r.ev
                  ELSE /\ r.result = "out"
                       /\ UserRows(active', u) = {}
                       /\ \E a \in was, s \in stamps' :
                            /\ UserRows(stamps', u) = UserRows(r.preStamps, u) \cup {s}
                            /\ s \notin r.preStamps
                            /\ s.start = a.start /\ s.event = r.ev]_vars

\* A scan has just signed its user in; since its SELECT a scan of another
\* user has committed.
C10_Witness ==
  \E p \in Procs :
    /\ Finished(p)
    /\ req[p].result \in {"in", "out"}
    /\ ~req[p].sameOv
    /\ \E a \in active : a \notin req[p].preActive /\ a.user # req[p].user

(***************************************************************************)
(* C17.  Every stamp records the event of the session it closed: the       *)
(* stamp that carries a session's start carries that session's event.      *)
(***************************************************************************)
C17_StampKeepsSessionEvent ==
  \A c \in closes : \A s \in stamps :
    s.id = c.stamp => s.event = c.session.event

(***************************************************************************)
(* C18.  Session accounting is conserved.  For every user the scans that   *)
(* answered "in" are as many as the user's stamps plus open sessions, the  *)
(* scans that answered "out" are as many as the user's stamps, and the     *)
(* answers alternate in, out, in, out.                                     *)
(***************************************************************************)
Count(seq, x) == Cardinality({i \in DOMAIN seq : seq[i] = x})

C18_AccountingConserved ==
  \A u \in UserIds :
    /\ Count(log[u], "in")
         = Cardinality(UserRows(stamps, u)) + Cardinality(UserRows(active, u))
    /\ Count(log[u], "out") = Cardinality(UserRows(stamps, u))
    /\ \A i \in DOMAIN log[u] :
         log[u][i] = (IF i % 2 = 1 THEN "in" ELSE "out")

(***************************************************************************)
(* C19.  scan never fails with an error: every scan ends with "in", "out"  *)
(* or nothing, and the lookup of the open session never finds two rows.    *)
(***************************************************************************)
C19_ScanNeverRaises ==
  \A p \in Procs : Finished(p) => req[p].result \in {"in", "out", "none"}

(***************************************************************************)
(* C11.  canonical_name is case-insensitive on the name parts: every       *)
(* spelling "Last, First" has a key, and it is the key of the same string  *)
(* in lower case and of the same string in upper case, so two spellings    *)
(* that differ only in letter case have the same key.                      *)
(***************************************************************************)
C11_CaseInsensitive ==
  canon.done =>
    /\ canon.key # None
    /\ canon.key = canonical_name(LowerStr(canon.name))
    /\ canon.key = canonical_name(WithCase(canon.name, DOMAIN canon.name))

\* A spelling in mixed case has been given its key.
C11_Witness ==
  /\ canon.done
  /\ canon.key # None
  /\ canon.name # LowerStr(canon.name)
  /\ canon.name # WithCase(canon.name, DOMAIN canon.name)

(***************************************************************************)
(* C16.  Either form of identity finds the account: every spelling         *)
(* "Last, First" of the name an account was made from, in any letter case  *)
(* and with or without "mentor" before it, has the account's code as its   *)
(* key, and the code itself is passed through unchanged.                   *)
(***************************************************************************)
C16_EitherForm ==
  canon.done => (canon.key = canon.code /\ canon.again = canon.code)

(***************************************************************************)
(* The query and export layer.                                             *)
(***************************************************************************)
\* The step is a call of the query and export layer
Queries == reply = NoReply /\ reply'.op \in {"get_active", "get_stamps", "export"}

\* C12: get_active, get_stamps and export are read-only.  Whatever their
\* arguments and whatever the state they are called in, the call leaves
\* the events, the open sessions and the stamps as they were (the users
\* are a fixed table), and nothing else of the tracker changes either.
C12_QueriesReadOnly ==
  [][Queries =>
       /\ events' = events
       /\ active' = active
       /\ stamps' = stamps
       /\ nextActive' = nextActive
       /\ nextStamp' = nextStamp
       /\ req' = req]_vars

\* get_active has answered with the open sessions it read, in a state
\* that also holds a stamp, and all of them are still there.
C12_Witness ==
  /\ reply.op = "get_active"
  /\ reply.rows # <<>>
  /\ Len(reply.rows) = Cardinality(ActiveQuery(reply.event))
  /\ stamps # {}

\* The stamps of enabled events that the filters of an export let through,
\* when a time bound means "inside the range"
InRange(name, start, end) ==
  {s \in stamps :
     /\ events[s.event].enabled
     /\ name # <<>> => users[s.user].code = mk_hash(name)
     /\ start # NoTime => s.start >= start
     /\ end # NoTime => s.end <= end}

\* The rows of an answer, without the header row
Body(r) == IF r.headers THEN Drop(r.rows, 1) ELSE r.rows

\* C13: an export with a start bound or an end bound returns exactly the
\* stamps of enabled events, matching the other filters, that begin at or
\* after the start bound and finish at or before the end bound.
C13_ExportTimeRange ==
  (reply.op = "export" /\ (reply.start # NoTime \/ reply.end # NoTime)) =>
    /\ reply.error = ""
    /\ LET want == InOrder(InRange(reply.name, reply.start, reply.end))
       IN Body(reply) = [i \in DOMAIN want |-> as_list(want[i])]

\* C14: get_stamps and export with no filter return every stamp whose
\* event is enabled and no stamp of a disabled event, and an export with
\* headers is the header row followed by one row per stamp.
C14_ListsEnabledStamps ==
  LET want == InOrder({s \in stamps : events[s.event].enabled})
  IN /\ (reply.op = "get_stamps" /\ reply.name = <<>> /\ reply.event = NoCode) =>
          /\ reply.error = ""
          /\ reply.rows = [i \in DOMAIN want |-> Stamps_as_dict(want[i])]
     /\ (reply.op = "export" /\ reply.name = <<>> /\ reply.start = NoTime
           /\ reply.end = NoTime) =>
          /\ reply.error = ""
          /\ Body(reply) = [i \in DOMAIN want |-> as_list(want[i])]
          /\ reply.headers => (reply.rows # <<>> /\ reply.rows[1] = Header)

\* C15: every POST /scan is answered either with the JSON body of a
\* sign-in or sign-out (status 200) or with status 400 and the text
\* "not a valid code".
C15_JsonOrBadRequest ==
  reply.op = "POST /scan" =>
    \/ reply.status = 200 /\ reply.body = "json" /\ reply.stamp \in {"in", "out"}
    \/ reply.status = 400 /\ reply.body = "text"

(***************************************************************************)
(* Badges.                                                                 *)
(***************************************************************************)
\* The last call was op, and the call before it, if asked for, was prev,
\* of the same user and badge
LastCall(op) == Len(calls) >= 1 /\ calls[Len(calls)].op = op
LastTwo(prev, op) ==
  /\ Len(calls) = 2
  /\ calls[1].op = prev /\ calls[2].op = op
  /\ calls[1].user = calls[2].user /\ calls[1].badge = calls[2].badge

\* A user holds at most one award of each badge
AtMostOneAward ==
  \A u \in UserIds, b \in BadgeIds :
    Cardinality({a \in awards : a.user = u /\ a.badge = b}) <= 1

\* award_badge of a badge the user has, and remove_badge of a badge the
\* user lacks, change nothing
NoOpCalls ==
  LET c == calls[Len(calls)]
  IN /\ (LastCall("award_badge") /\ has_badge(c.before, c.user, c.badge))
          => awards = c.before
     /\ (LastCall("remove_badge") /\ ~has_badge(c.before, c.user, c.badge))
          => awards = c.before

\* C20 as stated: at most one award per badge, the two calls that change
\* nothing, and award_badge followed by remove_badge of the same badge
\* restores the user's set of awards, whatever the user held before.
C20_Idempotent ==
  /\ AtMostOneAward
  /\ NoOpCalls
  /\ LastTwo("award_badge", "remove_badge") =>
       badges(awards, calls[1].user) = badges(calls[1].before, calls[1].user)

\* C20, amended: the pair award_badge, remove_badge restores the table
\* when the user did not hold the badge before the pair; when the user
\* did, the pair takes that award away and leaves the other awards.
C20_IdempotentUnlessHeld ==
  /\ AtMostOneAward
  /\ NoOpCalls
  /\ LastTwo("award_badge", "remove_badge") =>
       LET c == calls[1]
       IN IF has_badge(c.before, c.user, c.badge)
          THEN /\ ~has_badge(awards, c.user, c.badge)
               /\ awards = {a \in c.before :
                              ~(a.user = c.user /\ a.badge = c.badge)}
          ELSE awards = c.before

\* A user holding one badge was awarded another and had it removed again.
C20_Witness ==
  /\ LastTwo("award_badge", "remove_badge")
  /\ ~has_badge(calls[1].before, calls[1].user, calls[1].badge)
  /\ has_badge(calls[2].before, calls[1].user, calls[1].badge)
  /\ badges(awards, calls[1].user) # {}

====
